---------------------------- MODULE Spec2Model ----------------------------
(***************************************************************************)
(* A model of communicator.go of jirasearch: the field catalog resolver    *)
(* (GetCustomFields), the search runner (SearchIssues), the issue fetcher  *)
(* (GetIssue), the sub-task aggregator (GetSubTasksForIssue) with the      *)
(* developer-of-record scan (GetDeveloperNameFromLog), and the value       *)
(* extractor (GetValueFromField, GetValue, GetNestedMapKeyName).           *)
(*                                                                         *)
(* Go strings are sequences of one-character strings, so that              *)
(* strings.ToLower and strings.Replace act on characters.  A decoded JSON  *)
(* value (Go's interface{}) is a record [t, v]: t is the dynamic type and  *)
(* v the value; a Go map is a function from keys to such records.  A       *)
(* failed type assertion, a nil dereference or an index out of range is a  *)
(* panic, which ends the whole process.                                    *)
(***************************************************************************)
EXTENDS Naturals, Sequences, FiniteSets

VARIABLES
    \* GetCustomFields
    cfPc,                \* "idle", "start", "loop", "done", "panic"
    cfBody,              \* the body returned for /rest/api/2/field
    fields,              \* the decoded []map[string]interface{}
    cfIdx,               \* position of the range loop in fields
    result,              \* result map[string]string
    staticFields,        \* staticFields map[string]string
    customFieldChannel,  \* the catalogs sent on customFieldChannel
    \* GetValueFromField and GetDeveloperNameFromLog, applied to drawn inputs
    fnPc,                \* "idle", "ready", "returned", "panic"
    fnName,              \* which function is applied
    fnIssue,             \* the issue map[string]interface{} argument
    fnField,             \* the field argument of GetValueFromField
    fnOut,               \* the returned string
    \* The remote service: the body it answers with for each issue id
    remote,
    \* SearchIssues
    srPc,                \* "idle", "start", "loop", "done", "panic"
    srBody,              \* the body returned for /rest/api/2/search
    processedFields,     \* the processedFields argument
    issues,              \* the decoded responseResult["issues"]
    srIdx,               \* position of the range loop in issues
    issueRetrievedChannel, \* every JiraIssue sent on issueRetrievedChannel
    \* The caller, which starts one GetSubTasksForIssue per issue received
    dispatched,          \* how many issues it has received from the channel
    \* GetSubTasksForIssue: one record per running call (goroutine)
    tasks,
    totalRestCalls,      \* the int *totalRestCalls points to
    finalIssueChannel    \* every JiraIssue sent on finalIssueChannel

catVars == <<cfPc, cfBody, fields, cfIdx, result, staticFields, customFieldChannel>>
fnVars == <<fnPc, fnName, fnIssue, fnField, fnOut>>
searchVars == <<srPc, srBody, processedFields, issues, srIdx, issueRetrievedChannel>>
aggVars == <<dispatched, tasks, totalRestCalls, finalIssueChannel>>
pipeVars == <<remote, searchVars, aggVars>>
vars == <<catVars, fnVars, pipeVars>>

-----------------------------------------------------------------------------
(* Bounds of the model *)

\* Longest field-definition list in a /rest/api/2/field response.
MaxFields == 3
\* Most history entries of a changelog, and most items of a history entry.
MaxHistories == 2
MaxItems == 2
\* Most sub-tasks listed on a parent issue.
MaxSubTasks == 2
\* Most issues in a search response, hence most concurrent aggregator tasks.
MaxIssues == 2

-----------------------------------------------------------------------------
(* Go strings *)

UpperChars == <<"A","B","C","D","E","F","G","H","I","J","K","L","M",
                "N","O","P","Q","R","S","T","U","V","W","X","Y","Z">>
LowerChars == <<"a","b","c","d","e","f","g","h","i","j","k","l","m",
                "n","o","p","q","r","s","t","u","v","w","x","y","z">>

\* The lower-case letter of each upper-case letter.
UpperToLower ==
    [c \in {UpperChars[i] : i \in 1..Len(UpperChars)} |->
        LowerChars[CHOOSE i \in 1..Len(UpperChars) : UpperChars[i] = c]]

LowerChar(c) == IF c \in DOMAIN UpperToLower THEN UpperToLower[c] ELSE c

\* strings.ToLower, on ASCII strings
ToLower(s) == [i \in 1..Len(s) |-> LowerChar(s[i])]

IsComma(c) == c = ","
NotComma(c) == c # ","

RECURSIVE StripCommas_FirstOnly(_)
\* strings.Replace(s, ",", "", 1): only the first comma is removed.
StripCommas_FirstOnly(s) ==
    IF s = <<>> THEN <<>>
    ELSE IF IsComma(Head(s)) THEN Tail(s)
    ELSE <<Head(s)>> \o StripCommas_FirstOnly(Tail(s))

\* strings.Replace(s, ",", "", -1)
StripCommas(s) == SelectSeq(s, NotComma)

-----------------------------------------------------------------------------
(* Decoded JSON values: Go's interface{} after json.Unmarshal *)

JNull == [t |-> "null", v |-> 0]
JBool(b) == [t |-> "bool", v |-> b]
JNum(n) == [t |-> "num", v |-> n]
JStr(s) == [t |-> "str", v |-> s]
JArr(a) == [t |-> "arr", v |-> a]
JObj(m) == [t |-> "obj", v |-> m]
\* A body that is not JSON at all (an HTML error page, a truncated document).
NotJson == [t |-> "invalid", v |-> 0]

\* A nil or empty Go map.
EmptyMap == <<>>

Has(m, k) == k \in DOMAIN m
\* m[k].(string), m[k].(bool), ... succeed: the key is present with that type.
IsA(m, k, type) == Has(m, k) /\ m[k].t = type

MapPut(m, k, x) == [y \in DOMAIN m \cup {k} |-> IF y = k THEN x ELSE m[y]]
MapDel(m, k) == [y \in DOMAIN m \ {k} |-> m[y]]
\* A map literal of up to three entries.
Map1(k1, x1) == [y \in {k1} |-> x1]
Map2(k1, x1, k2, x2) == MapPut(Map1(k1, x1), k2, x2)
Map3(k1, x1, k2, x2, k3, x3) == MapPut(Map2(k1, x1, k2, x2), k3, x3)

\* The keys the code reads
K_custom == <<"c","u","s","t","o","m">>
K_name == <<"n","a","m","e">>
K_id == <<"i","d">>
K_errorMessages == <<"e","r","r","o","r","M","e","s","s","a","g","e","s">>


-----------------------------------------------------------------------------
(* The field catalog resolver: GetCustomFields *)

\* Field definitions the remote service may list: display names that differ
\* in letter case only, and ids with upper-case letters.
FieldNames == {<<"S","v">>, <<"s","v">>, <<"p">>}
\* Ids of custom fields, and ids of standard (built-in) fields.
CustomIds == {<<"C","1">>, <<"c","2">>}
StandardIds == {<<"S","v">>, <<"p">>}

FieldDef(custom, name, id) ==
    Map3(K_custom, JBool(custom), K_name, JStr(name), K_id, JStr(id))

WellShapedElems ==
    {JObj(FieldDef(TRUE, n, i)) : n \in FieldNames, i \in CustomIds}
    \cup {JObj(FieldDef(FALSE, n, i)) : n \in FieldNames, i \in StandardIds}

\* Elements that are not field definitions of the expected shape.
MalformedElems ==
    { JNum(1),
      JObj(Map1(K_name, JStr(<<"p">>))),
      JObj(Map2(K_custom, JBool(TRUE), K_id, JStr(<<"c","2">>))),
      JObj(Map2(K_custom, JBool(FALSE), K_name, JStr(<<"p">>))) }

RECURSIVE SeqsUpTo(_, _)
\* The sequences over S of length at most n.
SeqsUpTo(S, n) ==
    IF n = 0 THEN {<<>>}
    ELSE LET shorter == SeqsUpTo(S, n - 1)
         IN  shorter \cup {Append(q, x) : q \in shorter, x \in S}

\* The bodies /rest/api/2/field may answer with.
FieldBodies ==
    {NotJson, JObj(Map1(K_errorMessages, JArr(<<>>)))}
    \cup {JArr(a) : a \in SeqsUpTo(WellShapedElems \cup MalformedElems, MaxFields)}

\* json.Unmarshal(body, &fields) with fields []map[string]interface{}, its
\* error dropped: a body that is no JSON array leaves fields nil; an element
\* that is no JSON object is left a nil map.
UnmarshalFields(body) ==
    IF body.t = "arr"
    THEN [i \in 1..Len(body.v) |->
            IF body.v[i].t = "obj" THEN body.v[i].v ELSE EmptyMap]
    ELSE <<>>

CFState(res, stat, panic) == [result |-> res, staticFields |-> stat, panic |-> panic]

\* The loop body without the staticFields lookup of lines 101-102: a custom
\* field is added whenever its name is no key of the result.
ProcessField_IgnoringClaimed(res, stat, field) ==
    IF ~IsA(field, K_custom, "bool") THEN CFState(res, stat, TRUE)
    ELSE IF ~IsA(field, K_name, "str") THEN CFState(res, stat, TRUE)
    ELSE LET name == field[K_name].v IN
      IF field[K_custom].v
      THEN IF Has(res, name) THEN CFState(res, stat, FALSE)
           ELSE IF ~IsA(field, K_id, "str") THEN CFState(res, stat, TRUE)
           ELSE CFState(MapPut(res, ToLower(name), ToLower(field[K_id].v)), stat, FALSE)
      ELSE IF Has(res, ToLower(name))
           THEN CFState(MapDel(res, ToLower(name)), stat, FALSE)
           ELSE IF ~IsA(field, K_id, "str") THEN CFState(res, stat, TRUE)
           ELSE CFState(res, MapPut(stat, ToLower(name), ToLower(field[K_id].v)), FALSE)

\* The loop body with line 103 storing the name and the id as they are
\* written, without strings.ToLower.
ProcessField_RawEntry(res, stat, field) ==
    IF ~IsA(field, K_custom, "bool") THEN CFState(res, stat, TRUE)
    ELSE IF ~IsA(field, K_name, "str") THEN CFState(res, stat, TRUE)
    ELSE LET name == field[K_name].v IN
      IF field[K_custom].v
      THEN IF Has(res, name) THEN CFState(res, stat, FALSE)
           ELSE IF Has(stat, ToLower(name)) THEN CFState(res, stat, FALSE)
           ELSE IF ~IsA(field, K_id, "str") THEN CFState(res, stat, TRUE)
           ELSE CFState(MapPut(res, name, field[K_id].v), stat, FALSE)
      ELSE IF Has(res, ToLower(name))
           THEN CFState(MapDel(res, ToLower(name)), stat, FALSE)
           ELSE IF ~IsA(field, K_id, "str") THEN CFState(res, stat, TRUE)
           ELSE CFState(res, MapPut(stat, ToLower(name), ToLower(field[K_id].v)), FALSE)

\* The body of the range loop (lines 98-113) on one field definition.
ProcessField(res, stat, field) ==
    IF ~IsA(field, K_custom, "bool") THEN CFState(res, stat, TRUE)
    ELSE IF ~IsA(field, K_name, "str") THEN CFState(res, stat, TRUE)
    ELSE LET name == field[K_name].v IN
      IF field[K_custom].v
      THEN IF Has(res, name) THEN CFState(res, stat, FALSE)
           ELSE IF Has(stat, ToLower(name)) THEN CFState(res, stat, FALSE)
           ELSE IF ~IsA(field, K_id, "str") THEN CFState(res, stat, TRUE)
           ELSE CFState(MapPut(res, ToLower(name), ToLower(field[K_id].v)), stat, FALSE)
      ELSE IF Has(res, ToLower(name))
           THEN CFState(MapDel(res, ToLower(name)), stat, FALSE)
           ELSE IF ~IsA(field, K_id, "str") THEN CFState(res, stat, TRUE)
           ELSE CFState(res, MapPut(stat, ToLower(name), ToLower(field[K_id].v)), FALSE)

\* Lines 88-95: the request, the decoding and the two empty maps.
GetCustomFields_Fetch ==
    /\ cfPc = "start"
    /\ fields' = UnmarshalFields(cfBody)
    /\ result' = EmptyMap
    /\ staticFields' = EmptyMap
    /\ cfIdx' = 1
    /\ cfPc' = "loop"
    /\ UNCHANGED <<cfBody, customFieldChannel, fnVars, pipeVars>>

\* Lines 97-114: one iteration of the range loop.
GetCustomFields_Field ==
    /\ cfPc = "loop"
    /\ cfIdx <= Len(fields)
    /\ LET next == ProcessField(result, staticFields, fields[cfIdx]) IN
         /\ result' = next.result
         /\ staticFields' = next.staticFields
         /\ cfPc' = IF next.panic THEN "panic" ELSE "loop"
         /\ cfIdx' = IF next.panic THEN cfIdx ELSE cfIdx + 1
    /\ UNCHANGED <<cfBody, fields, customFieldChannel, fnVars, pipeVars>>

\* Line 116: customFieldChannel <- result
GetCustomFields_Send ==
    /\ cfPc = "loop"
    /\ cfIdx > Len(fields)
    /\ customFieldChannel' = Append(customFieldChannel, result)
    /\ cfPc' = "done"
    /\ UNCHANGED <<cfBody, fields, cfIdx, result, staticFields, fnVars, pipeVars>>

FnIdle ==
    /\ fnPc = "idle"
    /\ fnName = "none"
    /\ fnIssue = EmptyMap
    /\ fnField = <<>>
    /\ fnOut = <<>>

PipelineIdle ==
    /\ remote = EmptyMap
    /\ srPc = "idle"
    /\ srBody = NotJson
    /\ processedFields = <<>>
    /\ issues = <<>>
    /\ srIdx = 1
    /\ issueRetrievedChannel = <<>>
    /\ dispatched = 0
    /\ tasks = <<>>
    /\ totalRestCalls = 0
    /\ finalIssueChannel = <<>>

InitCatalog ==
    /\ cfPc = "start"
    /\ cfBody \in FieldBodies
    /\ fields = <<>>
    /\ cfIdx = 1
    /\ result = EmptyMap
    /\ staticFields = EmptyMap
    /\ customFieldChannel = <<>>
    /\ FnIdle
    /\ PipelineIdle

NextCatalog ==
    \/ GetCustomFields_Fetch
    \/ GetCustomFields_Field
    \/ GetCustomFields_Send

SpecCatalog == InitCatalog /\ [][NextCatalog]_vars

-----------------------------------------------------------------------------
(* Claims about GetCustomFields, under SpecCatalog *)

\* The catalog has been sent: customFieldChannel holds it.
CatalogSent == cfPc = "done" /\ Len(customFieldChannel) = 1
Catalog == customFieldChannel[1]

IsCustomAt(i) ==
    /\ IsA(fields[i], K_custom, "bool") /\ fields[i][K_custom].v
    /\ IsA(fields[i], K_name, "str") /\ IsA(fields[i], K_id, "str")
IsStandardAt(i) ==
    /\ IsA(fields[i], K_custom, "bool") /\ ~fields[i][K_custom].v
    /\ IsA(fields[i], K_name, "str") /\ IsA(fields[i], K_id, "str")
\* A definition with custom=false and a name, whether or not it has an id.
IsNonCustomAt(i) ==
    /\ IsA(fields[i], K_custom, "bool") /\ ~fields[i][K_custom].v
    /\ IsA(fields[i], K_name, "str")
LowerNameAt(i) == ToLower(fields[i][K_name].v)
LowerIdAt(i) == ToLower(fields[i][K_id].v)

\* C1: when a standard and a custom field definition share a lower-cased
\* name, the catalog sent on the channel has no entry that maps this name to
\* a custom field's id, wherever the colliding definitions stand.
C1_StandardNameNeverCustom ==
    CatalogSent =>
        \A i, k \in 1..Len(fields) :
            (IsStandardAt(i) /\ IsCustomAt(k) /\ LowerNameAt(i) = LowerNameAt(k))
            => ~(Has(Catalog, LowerNameAt(i)) /\ Catalog[LowerNameAt(i)] = LowerIdAt(k))

\* The first custom field definition with lower-cased name n.
FirstCustom(n) ==
    CHOOSE i \in 1..Len(fields) :
        /\ IsCustomAt(i) /\ LowerNameAt(i) = n
        /\ \A j \in 1..(i - 1) : ~(IsCustomAt(j) /\ LowerNameAt(j) = n)

\* C2: among custom fields that share a lower-cased name no standard field
\* has, the catalog maps the name to the lower-cased id of the first of them
\* in response order.
C2_FirstCustomWins ==
    CatalogSent =>
        \A k \in 1..Len(fields) :
            (/\ IsCustomAt(k)
             /\ \A i \in 1..Len(fields) :
                  IsNonCustomAt(i) => LowerNameAt(i) # LowerNameAt(k))
            => /\ Has(Catalog, LowerNameAt(k))
               /\ Catalog[LowerNameAt(k)] = LowerIdAt(FirstCustom(LowerNameAt(k)))

\* The body is a JSON array whose elements are all JSON objects.
ArrayOfObjects(body) ==
    /\ body.t = "arr"
    /\ \A i \in 1..Len(body.v) : body.v[i].t = "obj"

\* C9: for a body that is not an array of objects GetCustomFields never sends
\* a catalog, not even an empty one.
C9_MalformedBodySendsNothing ==
    ~ArrayOfObjects(cfBody) => customFieldChannel = <<>>

-----------------------------------------------------------------------------
(* The value extractor: GetNestedMapKeyName, GetValue, GetValueFromField *)

K_fields == <<"f","i","e","l","d","s">>
K_value == <<"v","a","l","u","e">>
K_displayName == <<"d","i","s","p","l","a","y","N","a","m","e">>
K_originalEstimate == <<"o","r","i","g","i","n","a","l","E","s","t","i","m","a","t","e">>

F_assignee == <<"a","s","s","i","g","n","e","e">>
F_reporter == <<"r","e","p","o","r","t","e","r">>
F_issuetype == <<"i","s","s","u","e","t","y","p","e">>
F_status == <<"s","t","a","t","u","s">>
F_priority == <<"p","r","i","o","r","i","t","y">>
F_timetracking == <<"t","i","m","e","t","r","a","c","k","i","n","g">>
F_summary == <<"s","u","m","m","a","r","y">>
F_created == <<"c","r","e","a","t","e","d">>

\* What a function call comes to: a returned string, or a panic.
Returns(s) == [panic |-> FALSE, val |-> s]
Panics == [panic |-> TRUE, val |-> <<>>]

\* GetNestedMapKeyName without the strings.ToLower calls: the field name is
\* compared as it is written.
GetNestedMapKeyName_CaseSensitive(fieldName) ==
    IF fieldName = F_assignee \/ fieldName = F_reporter
    THEN K_displayName
    ELSE IF fieldName = F_issuetype \/ fieldName = F_status \/ fieldName = F_priority
    THEN K_name
    ELSE IF fieldName = F_timetracking
    THEN K_originalEstimate
    ELSE K_value

\* Lines 261-275
GetNestedMapKeyName(fieldName) ==
    IF ToLower(fieldName) = F_assignee \/ ToLower(fieldName) = F_reporter
    THEN K_displayName
    ELSE IF \/ ToLower(fieldName) = F_issuetype
            \/ ToLower(fieldName) = F_status
            \/ ToLower(fieldName) = F_priority
    THEN K_name
    ELSE IF ToLower(fieldName) = F_timetracking
    THEN K_originalEstimate
    ELSE K_value

DigitChars == <<"0","1","2","3","4","5","6","7","8","9">>

RECURSIVE Itoa(_)
\* The decimal digits of a natural number.
Itoa(n) ==
    IF n < 10 THEN <<DigitChars[n + 1]>>
    ELSE Append(Itoa(n \div 10), DigitChars[(n % 10) + 1])

\* fmt.Sprint of a decoded scalar: a string is itself, a bool is true or
\* false, a number (a float64 holding a natural below 10^6 here) is its
\* decimal digits.
Sprint(val) ==
    IF val.t = "str" THEN val.v
    ELSE IF val.t = "bool" THEN (IF val.v THEN <<"t","r","u","e">> ELSE <<"f","a","l","s","e">>)
    ELSE Itoa(val.v)

\* Lines 242-258
GetValue(val, fieldName) ==
    IF val.t = "arr"
    THEN IF Len(val.v) = 0 THEN Panics
         ELSE IF val.v[1].t # "obj" THEN Panics
         ELSE IF ~IsA(val.v[1].v, K_value, "str") THEN Panics
         ELSE Returns(val.v[1].v[K_value].v)
    ELSE IF val.t = "obj"
    THEN IF Has(val.v, GetNestedMapKeyName(fieldName))
         THEN IF val.v[GetNestedMapKeyName(fieldName)].t = "str"
              THEN Returns(val.v[GetNestedMapKeyName(fieldName)].v)
              ELSE Panics
         ELSE Returns(<<>>)
    ELSE IF val.t # "null"
    THEN Returns(Sprint(val))
    ELSE Returns(<<>>)

IsDigit(c) == \E i \in 1..10 : DigitChars[i] = c
DigitVal(c) == (CHOOSE i \in 1..10 : DigitChars[i] = c) - 1
\* s holds n digits from position i on.
DigitsAt(s, i, n) == i + n - 1 <= Len(s) /\ \A k \in i..(i + n - 1) : IsDigit(s[k])
CharAt(s, i, c) == i <= Len(s) /\ s[i] = c
Num2(s, i) == 10 * DigitVal(s[i]) + DigitVal(s[i + 1])
Num4(s, i) == 100 * Num2(s, i) + Num2(s, i + 2)

RECURSIVE DigitRun(_, _)
\* The number of consecutive digits of s from position i on.
DigitRun(s, i) == IF i <= Len(s) /\ IsDigit(s[i]) THEN 1 + DigitRun(s, i + 1) ELSE 0

IsLeap(y) == y % 4 = 0 /\ (y % 100 # 0 \/ y % 400 = 0)
DaysIn(m, y) ==
    IF m = 2 THEN (IF IsLeap(y) THEN 29 ELSE 28)
    ELSE IF m \in {4, 6, 9, 11} THEN 30 ELSE 31

\* The zero time.Time, which time.Parse returns with an error: 1 January of
\* year 1.
ZeroTime == [ok |-> FALSE, year |-> 1, month |-> 1, day |-> 1]

\* time.Parse("2006-01-02T15:04:05.999-0700", s): a four-digit year, a
\* two-digit month and day, an hour of one or two digits, two-digit minutes
\* and seconds, an optional fraction of any number of digits after a period
\* or a comma, and a signed
\* four-digit zone offset; every part is range-checked and nothing may
\* follow.  The date of the result is the date written in s.
TimeParse(s) ==
    LET hl == IF DigitsAt(s, 12, 2) THEN 2 ELSE 1
        p == 18 + hl
        fl == IF (CharAt(s, p, ".") \/ CharAt(s, p, ",")) /\ DigitsAt(s, p + 1, 1)
              THEN 1 + DigitRun(s, p + 1) ELSE 0
        z == p + fl
        shape ==
            /\ DigitsAt(s, 1, 4) /\ CharAt(s, 5, "-")
            /\ DigitsAt(s, 6, 2) /\ CharAt(s, 8, "-")
            /\ DigitsAt(s, 9, 2) /\ CharAt(s, 11, "T")
            /\ DigitsAt(s, 12, hl) /\ CharAt(s, 12 + hl, ":")
            /\ DigitsAt(s, 13 + hl, 2) /\ CharAt(s, 15 + hl, ":")
            /\ DigitsAt(s, 16 + hl, 2)
            /\ (CharAt(s, z, "+") \/ CharAt(s, z, "-"))
            /\ DigitsAt(s, z + 1, 4)
            /\ Len(s) = z + 4
    IN  IF ~shape THEN ZeroTime
        ELSE LET year == Num4(s, 1)
                 month == Num2(s, 6)
                 day == Num2(s, 9)
                 hour == IF hl = 2 THEN Num2(s, 12) ELSE DigitVal(s[12])
                 inRange ==
                     /\ month \in 1..12
                     /\ day >= 1 /\ day <= DaysIn(month, year)
                     /\ hour < 24
                     /\ Num2(s, 13 + hl) < 60
                     /\ Num2(s, 16 + hl) < 60
                     /\ Num2(s, z + 1) <= 24
                     /\ Num2(s, z + 3) <= 60
             IN  IF inRange
                 THEN [ok |-> TRUE, year |-> year, month |-> month, day |-> day]
                 ELSE ZeroTime

MonthNames == << <<"J","a","n">>, <<"F","e","b">>, <<"M","a","r">>, <<"A","p","r">>, <<"M","a","y">>, <<"J","u","n">>,
                 <<"J","u","l">>, <<"A","u","g">>, <<"S","e","p">>, <<"O","c","t">>, <<"N","o","v">>, <<"D","e","c">> >>
TwoDigit(n) == <<DigitChars[(n \div 10) + 1], DigitChars[(n % 10) + 1]>>

\* dateVal.Format("02/Jan/06")
FormatDate(d) ==
    TwoDigit(d.day) \o <<"/">> \o MonthNames[d.month] \o <<"/">> \o TwoDigit(d.year % 100)

NotAvailable == <<"N","/","A">>

\* Lines 224-239
GetValueFromField(issue, field) ==
    IF Has(issue, K_fields)
    THEN IF issue[K_fields].t # "obj" THEN Panics
         ELSE LET fieldsMap == issue[K_fields].v IN
              IF Has(fieldsMap, field)
              THEN IF ToLower(field) = F_created
                   THEN IF fieldsMap[field].t # "str" THEN Panics
                        ELSE Returns(FormatDate(TimeParse(fieldsMap[field].v)))
                   ELSE LET got == GetValue(fieldsMap[field], field) IN
                        IF got.panic THEN Panics
                        ELSE Returns(StripCommas(got.val))
              ELSE Returns(NotAvailable)
    ELSE Returns(NotAvailable)

-----------------------------------------------------------------------------
(* IsBug and the developer-of-record scan: GetDeveloperNameFromLog *)

\* IsBug without the lower-casing: the comparison minds the letter case.
IsBug_CaseSensitive(issueType) ==
    \/ issueType = <<"b","u","g">>
    \/ issueType = <<"f","u","n","c","t","i","o","n","a","l"," ","b","u","g">>
    \/ issueType = <<"p","r","o","d","u","c","t","i","o","n"," ","i","s","s","u","e">>

\* Lines 195-197
IsBug(issueType) ==
    \/ ToLower(issueType) = <<"b","u","g">>
    \/ ToLower(issueType) = <<"f","u","n","c","t","i","o","n","a","l"," ","b","u","g">>
    \/ ToLower(issueType) = <<"p","r","o","d","u","c","t","i","o","n"," ","i","s","s","u","e">>

K_changelog == <<"c","h","a","n","g","e","l","o","g">>
K_histories == <<"h","i","s","t","o","r","i","e","s">>
K_items == <<"i","t","e","m","s">>
K_toString == <<"t","o","S","t","r","i","n","g">>
K_author == <<"a","u","t","h","o","r">>
InDevelopment == <<"I","n"," ","D","e","v","e","l","o","p","m","e","n","t">>

Scanned(found, name) == [panic |-> FALSE, found |-> found, val |-> name]
ScanPanics == [panic |-> TRUE, found |-> FALSE, val |-> <<>>]

RECURSIVE ScanItems(_, _, _)
\* Lines 206-212: the inner loop over the items of one history entry, from
\* item j on; stops at the first item whose toString is "In Development".
ScanItems(mapHistory, items, j) ==
    IF j > Len(items) THEN Scanned(FALSE, <<>>)
    ELSE IF items[j].t # "obj" THEN ScanPanics
    ELSE IF IsA(items[j].v, K_toString, "str") /\ items[j].v[K_toString].v = InDevelopment
    THEN IF ~IsA(mapHistory, K_author, "obj") THEN ScanPanics
         ELSE IF ~IsA(mapHistory[K_author].v, K_displayName, "str") THEN ScanPanics
         ELSE Scanned(TRUE, mapHistory[K_author].v[K_displayName].v)
    ELSE ScanItems(mapHistory, items, j + 1)

RECURSIVE ScanHistories(_, _)
\* Lines 203-217: the outer loop from entry i on, entered with developerName
\* empty; it breaks only when the entry left developerName non-empty.
ScanHistories(histories, i) ==
    IF i > Len(histories) THEN Returns(<<>>)
    ELSE IF histories[i].t # "obj" THEN Panics
    ELSE IF ~IsA(histories[i].v, K_items, "arr") THEN Panics
    ELSE LET entry == ScanItems(histories[i].v, histories[i].v[K_items].v, 1) IN
         IF entry.panic THEN Panics
         ELSE IF entry.val # <<>> THEN Returns(entry.val)
         ELSE ScanHistories(histories, i + 1)

\* Lines 200-221
GetDeveloperNameFromLog(issue) ==
    IF ~IsA(issue, K_changelog, "obj") THEN Panics
    ELSE IF ~IsA(issue[K_changelog].v, K_histories, "arr") THEN Panics
    ELSE ScanHistories(issue[K_changelog].v[K_histories].v, 1)

-----------------------------------------------------------------------------
(* GetValueFromField and GetDeveloperNameFromLog applied to drawn inputs *)

F_labels == <<"l","a","b","e","l","s">>

\* The field names asked for, in several letter cases.
ExtractFields ==
    { F_assignee, <<"A","s","s","i","g","n","e","e">>, F_reporter, F_issuetype, <<"I","s","s","u","e","T","y","p","e">>, F_status,
      F_priority, F_timetracking, F_summary, F_created, <<"C","r","e","a","t","e","d">>, F_labels }

Option(s) == JObj(Map1(K_value, JStr(s)))

\* Values a field of an issue may hold, of every JSON shape.
FieldValues ==
    { JNull, JStr(<<>>), JStr(<<"B","u","g">>), JStr(<<"1",",","2","3","4">>), JStr(<<",","a",",",",","b",",">>),
      JNum(0), JNum(1234), JNum(999999), JBool(TRUE), JBool(FALSE),
      JArr(<<>>), JArr(<<JStr(<<"x">>)>>), JArr(<<JNull>>),
      JArr(<<Option(<<"O","p","t","i","o","n"," ","A">>), Option(<<"O","p","t","i","o","n"," ","B">>)>>),
      JArr(<<Option(<<"A",",","B">>), JNum(1)>>),
      JArr(<<JObj(Map1(K_value, JNum(3)))>>), JArr(<<JObj(EmptyMap)>>),
      JObj(EmptyMap),
      JObj(Map1(K_name, JStr(<<"B","u","g">>))),
      JObj(Map1(K_displayName, JStr(<<"D","o","e",","," ","J","a","n","e">>))),
      JObj(Map1(K_value, JStr(<<"v">>))),
      JObj(Map1(K_originalEstimate, JStr(<<"1","h">>))),
      JObj(MapPut(Map3(K_name, JStr(<<"n">>), K_displayName, JStr(<<"d">>),
                       K_value, JStr(<<"v">>)), K_originalEstimate, JStr(<<"o">>))),
      JObj(Map1(K_name, JNum(1))),
      JObj(Map1(K_value, JNull)),
      JObj(Map1(K_displayName, JObj(Map1(K_fields, JStr(<<"x">>))))),
      JStr(<<"2","0","2","3","-","0","3","-","0","5","T","1","0",":","1","5",":","3","0",".","0","0","0","+","0","0","0","0">>),
      JStr(<<"2","0","2","4","-","0","2","-","2","9","T","2","3",":","5","9",":","5","9",".","1","2","3","+","0","5","3","0">>),
      JStr(<<"1","9","9","9","-","1","2","-","3","1","T","9",":","0","5",":","0","0","-","0","7","0","0">>),
      JStr(<<"2","0","2","3","-","0","2","-","2","9","T","1","0",":","1","5",":","3","0",".","0","0","0","+","0","0","0","0">>),
      JStr(<<"2","0","2","3","-","0","3","-","0","5","T","1","0",":","1","5",":","3","0",",","0","0","0","+","0","0","0","0">>),
      JStr(<<"2","0","2","4","-","0","2","-","2","9","T","2","3",":","5","9",":","5","9",",","5","+","0","5","3","0">>),
      JStr(<<"2","0","2","3","-","0","3","-","0","5">>),
      JStr(<<"2","0","2","3","-","0","3","-","0","5","T","1","0",":","1","5",":","3","0",".","0","0","0","+","0","0","0","0","Z">>) }

IssueWith(field, val) == Map1(K_fields, JObj(Map1(field, val)))

\* The issues handed to GetValueFromField.
ExtractIssues ==
    { EmptyMap, Map1(K_id, JStr(<<"1">>)), Map1(K_fields, JObj(EmptyMap)),
      Map1(K_fields, JNull), Map1(K_fields, JStr(<<"x">>)) }
    \cup {IssueWith(f, x) : f \in ExtractFields, x \in FieldValues}

ItemTo(status) == JObj(Map1(K_toString, JStr(status)))
LogItems == {ItemTo(InDevelopment), ItemTo(<<"D","o","n","e">>)}
Authors == {<<"A","l">>, <<"B","o">>, <<>>}
Author(name) == JObj(Map1(K_displayName, JStr(name)))
History(name, items) == JObj(Map2(K_author, Author(name), K_items, JArr(items)))

WellShapedHistories ==
    {History(a, items) : a \in Authors, items \in SeqsUpTo(LogItems, MaxItems)}

\* History entries that break a type assertion of the scan, or carry an item
\* without a toString string.
OddHistories ==
    { JNum(1),
      JObj(Map1(K_author, Author(<<"A","l">>))),
      JObj(Map1(K_items, JArr(<<ItemTo(InDevelopment)>>))),
      JObj(Map2(K_author, JObj(Map1(K_displayName, JNull)),
                K_items, JArr(<<ItemTo(InDevelopment)>>))),
      History(<<"A","l">>, <<JObj(Map1(K_toString, JNull)), JObj(EmptyMap),
                        ItemTo(InDevelopment)>>),
      History(<<"A","l">>, <<JStr(<<"x">>)>>) }

ChangeLog(histories) == JObj(Map1(K_histories, JArr(histories)))

\* The issues handed to GetDeveloperNameFromLog.
LogIssues ==
    { EmptyMap, Map1(K_changelog, JNull), Map1(K_changelog, JObj(EmptyMap)) }
    \cup { Map1(K_changelog, ChangeLog(h)) :
             h \in SeqsUpTo(WellShapedHistories \cup OddHistories, MaxHistories) }

CatalogIdle ==
    /\ cfPc = "idle"
    /\ cfBody = NotJson
    /\ fields = <<>>
    /\ cfIdx = 1
    /\ result = EmptyMap
    /\ staticFields = EmptyMap
    /\ customFieldChannel = <<>>

InitFunctions ==
    /\ CatalogIdle
    /\ PipelineIdle
    /\ fnPc = "ready"
    /\ fnOut = <<>>
    /\ \/ /\ fnName = "GetValueFromField"
          /\ fnIssue \in ExtractIssues
          /\ fnField \in ExtractFields
       \/ /\ fnName = "GetDeveloperNameFromLog"
          /\ fnIssue \in LogIssues
          /\ fnField = <<>>

Call_GetValueFromField ==
    /\ fnPc = "ready"
    /\ fnName = "GetValueFromField"
    /\ LET got == GetValueFromField(fnIssue, fnField) IN
         /\ fnPc' = IF got.panic THEN "panic" ELSE "returned"
         /\ fnOut' = got.val
    /\ UNCHANGED <<fnName, fnIssue, fnField, catVars, pipeVars>>

Call_GetDeveloperNameFromLog ==
    /\ fnPc = "ready"
    /\ fnName = "GetDeveloperNameFromLog"
    /\ LET got == GetDeveloperNameFromLog(fnIssue) IN
         /\ fnPc' = IF got.panic THEN "panic" ELSE "returned"
         /\ fnOut' = got.val
    /\ UNCHANGED <<fnName, fnIssue, fnField, catVars, pipeVars>>

NextFunctions ==
    \/ Call_GetValueFromField
    \/ Call_GetDeveloperNameFromLog

SpecFunctions == InitFunctions /\ [][NextFunctions]_vars

-----------------------------------------------------------------------------
(* Claims about GetValueFromField and GetDeveloperNameFromLog, under
   SpecFunctions *)

\* The issue has no "fields" key, or its "fields" object lacks the field.
FieldAbsent(issue, field) ==
    \/ ~Has(issue, K_fields)
    \/ issue[K_fields].t = "obj" /\ ~Has(issue[K_fields].v, field)

\* The issue has no "fields" key or its "fields" is an object.
FieldsWellShaped(issue) == Has(issue, K_fields) => issue[K_fields].t = "obj"

\* C3: GetValueFromField never raises, whatever the JSON shape of the field
\* value (stated here for the issues whose "fields", when present, is an
\* object), and returns "N/A" when the issue has no "fields" key or the
\* "fields" object lacks the requested key.
C3_ExtractNeverRaises ==
    (fnName = "GetValueFromField" /\ FieldsWellShaped(fnIssue)) =>
        /\ fnPc # "panic"
        /\ (fnPc = "returned" /\ FieldAbsent(fnIssue, fnField)) => fnOut = NotAvailable

\* Every history entry is an object with an author display name and a list
\* of item objects.
WellShapedLog(issue) ==
    /\ IsA(issue, K_changelog, "obj")
    /\ IsA(issue[K_changelog].v, K_histories, "arr")
    /\ \A i \in 1..Len(issue[K_changelog].v[K_histories].v) :
         LET h == issue[K_changelog].v[K_histories].v[i] IN
           /\ h.t = "obj"
           /\ IsA(h.v, K_author, "obj")
           /\ IsA(h.v[K_author].v, K_displayName, "str")
           /\ IsA(h.v, K_items, "arr")
           /\ \A j \in 1..Len(h.v[K_items].v) : h.v[K_items].v[j].t = "obj"

HistoriesOf(issue) == issue[K_changelog].v[K_histories].v

\* Entry h holds an item whose toString is "In Development".
EntryMatches(h) ==
    \E j \in 1..Len(h.v[K_items].v) :
        /\ IsA(h.v[K_items].v[j].v, K_toString, "str")
        /\ h.v[K_items].v[j].v[K_toString].v = InDevelopment

\* The author display name of the entry that holds the first matching item
\* of the whole history, the empty string when no item matches.
FirstMatchAuthor(hs) ==
    IF \E i \in 1..Len(hs) : EntryMatches(hs[i])
    THEN LET first == CHOOSE i \in 1..Len(hs) :
                        /\ EntryMatches(hs[i])
                        /\ \A k \in 1..(i - 1) : ~EntryMatches(hs[k])
         IN  hs[first].v[K_author].v[K_displayName].v
    ELSE <<>>

\* C4: the scan returns the author display name of the entry with the first
\* item whose toString is "In Development", also when that name is empty, so
\* that no later entry decides the result; and the empty string when no item
\* matches.
C4_FirstMatchDecides ==
    (fnName = "GetDeveloperNameFromLog" /\ fnPc = "returned" /\ WellShapedLog(fnIssue))
    => fnOut = FirstMatchAuthor(HistoriesOf(fnIssue))

-----------------------------------------------------------------------------
(* The remote service and the issue fetcher: GetIssue *)

K_issues == <<"i","s","s","u","e","s">>
K_subtasks == <<"s","u","b","t","a","s","k","s">>

\* json.Unmarshal(body, &responseResult) with responseResult
\* map[string]interface{}, its error dropped: a body that is no JSON object
\* leaves the map nil.
UnmarshalMap(body) == IF body.t = "obj" THEN body.v ELSE EmptyMap

\* What the service answers for /rest/api/2/issue/{id}, with
\* ?expand=changelog or without: the change history comes only when asked
\* for, and an unknown id gets an error object.
Respond(world, issueId, expand) ==
    IF ~Has(world, issueId) THEN JObj(Map1(K_errorMessages, JArr(<<>>)))
    ELSE IF expand \/ world[issueId].t # "obj" THEN world[issueId]
    ELSE JObj(MapDel(world[issueId].v, K_changelog))

\* Lines 145-151: the path GetIssue requests.
GetIssueUrl(issueId, includeChangeLog) ==
    IF includeChangeLog
    THEN <<"/","r","e","s","t","/","a","p","i","/","2","/","i","s","s","u","e","/">> \o issueId \o <<"?","e","x","p","a","n","d","=","c","h","a","n","g","e","l","o","g">>
    ELSE <<"/","r","e","s","t","/","a","p","i","/","2","/","i","s","s","u","e","/">> \o issueId

\* Lines 143-160
GetIssue(issueId, includeChangeLog) ==
    UnmarshalMap(Respond(remote, issueId, includeChangeLog))

-----------------------------------------------------------------------------
(* The search runner: SearchIssues *)

\* JiraIssue{Data: data, Fields: flds}: the other fields are zero.
JiraIssue(data, flds) ==
    [Data |-> data, Fields |-> flds, SubTasks |-> <<>>, AssigneeName |-> <<>>]

\* A panic in any goroutine ends the process: nothing runs after it.
Crashed ==
    \/ srPc = "panic"
    \/ \E t \in DOMAIN tasks : tasks[t].pc = "panic"

\* Lines 122-133: the request, the decoding, responseResult["issues"].
SearchIssues_Fetch ==
    /\ ~Crashed
    /\ srPc = "start"
    /\ LET responseResult == UnmarshalMap(srBody) IN
         IF IsA(responseResult, K_issues, "arr")
         THEN /\ issues' = responseResult[K_issues].v
              /\ srPc' = "loop"
         ELSE /\ issues' = issues
              /\ srPc' = "panic"
    /\ srIdx' = 1
    /\ UNCHANGED <<srBody, processedFields, issueRetrievedChannel, remote, aggVars,
                   catVars, fnVars>>

\* The loop of lines 135-138 walking the issues from the last to the first.
SearchIssues_Send_Backwards ==
    /\ ~Crashed
    /\ srPc = "loop"
    /\ srIdx <= Len(issues)
    /\ IF issues[Len(issues) + 1 - srIdx].t = "obj"
       THEN /\ issueRetrievedChannel' =
                 Append(issueRetrievedChannel,
                        JiraIssue(issues[Len(issues) + 1 - srIdx].v, processedFields))
            /\ srIdx' = srIdx + 1
            /\ srPc' = "loop"
       ELSE /\ srPc' = "panic"
            /\ UNCHANGED <<issueRetrievedChannel, srIdx>>
    /\ UNCHANGED <<srBody, processedFields, issues, remote, aggVars, catVars, fnVars>>

\* Lines 135-138: one iteration, which wraps the issue and sends it.
SearchIssues_Send ==
    /\ ~Crashed
    /\ srPc = "loop"
    /\ srIdx <= Len(issues)
    /\ IF issues[srIdx].t = "obj"
       THEN /\ issueRetrievedChannel' =
                 Append(issueRetrievedChannel, JiraIssue(issues[srIdx].v, processedFields))
            /\ srIdx' = srIdx + 1
            /\ srPc' = "loop"
       ELSE /\ srPc' = "panic"
            /\ UNCHANGED <<issueRetrievedChannel, srIdx>>
    /\ UNCHANGED <<srBody, processedFields, issues, remote, aggVars, catVars, fnVars>>

\* Line 140: the loop is over and SearchIssues returns.
SearchIssues_Return ==
    /\ ~Crashed
    /\ srPc = "loop"
    /\ srIdx > Len(issues)
    /\ srPc' = "done"
    /\ UNCHANGED <<srBody, processedFields, issues, srIdx, issueRetrievedChannel,
                   remote, aggVars, catVars, fnVars>>

-----------------------------------------------------------------------------
(* The sub-task aggregator: GetSubTasksForIssue *)

\* The locals of one call of GetSubTasksForIssue.  pc is "begin" (line 165),
\* "incParent" (totalRestCalls read at line 166, not yet written),
\* "fetchParent" (line 166 written, the call waits in GetIssue at line 167),
\* "loop" (line 171), "incSub" (totalRestCalls read at line 172, not yet
\* written), "fetchSub" (line 172 written, the call waits in GetIssue at
\* line 173), "done" or "panic"; reg is the value of *totalRestCalls the
\* increment read; input keeps the issue argument as it was passed, and paths
\* the paths of the fetches of the call that have returned, in order.
NewTask(issue, includeChangeLog) ==
    [ pc |-> "begin", input |-> issue, issue |-> issue,
      includeChangeLog |-> includeChangeLog,
      parent |-> EmptyMap, subTasks |-> <<>>, idx |-> 1, result |-> <<>>, reg |-> 0,
      paths |-> <<>> ]

SubTask(type, name, assignee, hours) ==
    [Type |-> type, Name |-> name, AssigneeName |-> assignee, TotalHours |-> hours]

\* Lines 174-178: the SubTask record of a fetched sub-task issue, or a panic
\* of one of the four extractions.
BuildSubTask(subTaskIssue) ==
    LET assignee == GetValueFromField(subTaskIssue, F_assignee)
        issueType == GetValueFromField(subTaskIssue, F_issuetype)
        name == GetValueFromField(subTaskIssue, F_summary)
        totalHours == GetValueFromField(subTaskIssue, F_timetracking)
    IN  IF assignee.panic \/ issueType.panic \/ name.panic \/ totalHours.panic
        THEN [panic |-> TRUE, val |-> SubTask(<<>>, <<>>, <<>>, <<>>)]
        ELSE [panic |-> FALSE,
              val |-> SubTask(issueType.val, name.val, assignee.val, totalHours.val)]

\* Lines 183-188: the issue as it is sent, or a panic of the extraction or of
\* the scan.
FinishIssue(issue, parent, subTaskRecords) ==
    LET withSubTasks == [issue EXCEPT !.SubTasks = subTaskRecords]
        parentIssueType == GetValueFromField(parent, F_issuetype)
    IN  IF parentIssueType.panic THEN [panic |-> TRUE, val |-> withSubTasks]
        ELSE IF IsBug(parentIssueType.val)
        THEN LET developer == GetDeveloperNameFromLog(parent) IN
             IF developer.panic THEN [panic |-> TRUE, val |-> withSubTasks]
             ELSE [panic |-> FALSE,
                   val |-> [withSubTasks EXCEPT !.AssigneeName = developer.val]]
        ELSE [panic |-> FALSE, val |-> withSubTasks]

\* The append of line 180 putting the new record first.
AppendSubTask_Prepending(subTaskRecords, currentSubTask) ==
    <<currentSubTask>> \o subTaskRecords

\* Line 180: result = append(result, currentSubTask)
AppendSubTask(subTaskRecords, currentSubTask) == Append(subTaskRecords, currentSubTask)

\* The value the second half of *totalRestCalls++ writes: the value read plus
\* one.
Incremented(reg) == reg + 1

\* Line 165 and the read of *totalRestCalls++ at line 166.
Agg_Begin(t) ==
    /\ ~Crashed
    /\ tasks[t].pc = "begin"
    /\ IF IsA(tasks[t].issue.Data, K_id, "str")
       THEN tasks' = [tasks EXCEPT ![t].pc = "incParent", ![t].reg = totalRestCalls]
       ELSE tasks' = [tasks EXCEPT ![t].pc = "panic"]
    /\ UNCHANGED <<totalRestCalls, dispatched, finalIssueChannel, remote, searchVars,
                   catVars, fnVars>>

\* The write of *totalRestCalls++ at line 166; the call then requests the
\* parent and waits for the answer.
Agg_WriteParent(t) ==
    /\ ~Crashed
    /\ tasks[t].pc = "incParent"
    /\ totalRestCalls' = Incremented(tasks[t].reg)
    /\ tasks' = [tasks EXCEPT ![t].pc = "fetchParent"]
    /\ UNCHANGED <<dispatched, finalIssueChannel, remote, searchVars, catVars, fnVars>>

\* Lines 167-169: GetIssue returns the parent, and its "fields"."subtasks"
\* are read.
Agg_FetchParent(t) ==
    /\ ~Crashed
    /\ tasks[t].pc = "fetchParent"
    /\ LET issueId == tasks[t].issue.Data[K_id].v
           parent == GetIssue(issueId, tasks[t].includeChangeLog)
           path == GetIssueUrl(issueId, tasks[t].includeChangeLog)
       IN
         IF IsA(parent, K_fields, "obj") /\ IsA(parent[K_fields].v, K_subtasks, "arr")
         THEN tasks' = [tasks EXCEPT ![t].pc = "loop",
                                     ![t].parent = parent,
                                     ![t].subTasks = parent[K_fields].v[K_subtasks].v,
                                     ![t].idx = 1,
                                     ![t].result = <<>>,
                                     ![t].paths = Append(@, path)]
         ELSE tasks' = [tasks EXCEPT ![t].pc = "panic", ![t].parent = parent,
                                     ![t].paths = Append(@, path)]
    /\ UNCHANGED <<totalRestCalls, dispatched, finalIssueChannel, remote, searchVars,
                   catVars, fnVars>>

\* Line 171 and the read of *totalRestCalls++ at line 172.
Agg_NextSubTask(t) ==
    /\ ~Crashed
    /\ tasks[t].pc = "loop"
    /\ tasks[t].idx <= Len(tasks[t].subTasks)
    /\ tasks' = [tasks EXCEPT ![t].pc = "incSub", ![t].reg = totalRestCalls]
    /\ UNCHANGED <<totalRestCalls, dispatched, finalIssueChannel, remote, searchVars,
                   catVars, fnVars>>

\* The loop body with the send of line 190 inside it: the issue goes out
\* once per sub-task, with the records gathered so far, and again at the end.
Agg_FetchSubTask_Sending(t) ==
    /\ ~Crashed
    /\ tasks[t].pc = "fetchSub"
    /\ LET subTask == tasks[t].subTasks[tasks[t].idx] IN
         IF subTask.t = "obj" /\ IsA(subTask.v, K_id, "str")
         THEN LET built == BuildSubTask(GetIssue(subTask.v[K_id].v, FALSE))
                  path == GetIssueUrl(subTask.v[K_id].v, FALSE)
              IN
              IF built.panic
              THEN /\ tasks' = [tasks EXCEPT ![t].pc = "panic",
                                             ![t].paths = Append(@, path)]
                   /\ UNCHANGED finalIssueChannel
              ELSE /\ tasks' = [tasks EXCEPT ![t].pc = "loop",
                                             ![t].result = AppendSubTask(@, built.val),
                                             ![t].idx = @ + 1,
                                             ![t].paths = Append(@, path)]
                   /\ finalIssueChannel' =
                        Append(finalIssueChannel,
                               [tasks[t].issue EXCEPT
                                  !.SubTasks = AppendSubTask(tasks[t].result, built.val)])
         ELSE /\ tasks' = [tasks EXCEPT ![t].pc = "panic"]
              /\ UNCHANGED finalIssueChannel
    /\ UNCHANGED <<totalRestCalls, dispatched, remote, searchVars, catVars, fnVars>>

\* The write of *totalRestCalls++ at line 172; the call then requests the
\* sub-task and waits for the answer.
Agg_WriteSubTask(t) ==
    /\ ~Crashed
    /\ tasks[t].pc = "incSub"
    /\ totalRestCalls' = Incremented(tasks[t].reg)
    /\ tasks' = [tasks EXCEPT ![t].pc = "fetchSub"]
    /\ UNCHANGED <<dispatched, finalIssueChannel, remote, searchVars, catVars, fnVars>>

\* Lines 173-180: GetIssue returns the sub-task, then the four extractions
\* and the append.
Agg_FetchSubTask(t) ==
    /\ ~Crashed
    /\ tasks[t].pc = "fetchSub"
    /\ LET subTask == tasks[t].subTasks[tasks[t].idx] IN
         IF subTask.t = "obj" /\ IsA(subTask.v, K_id, "str")
         THEN LET built == BuildSubTask(GetIssue(subTask.v[K_id].v, FALSE))
                  path == GetIssueUrl(subTask.v[K_id].v, FALSE)
              IN
              IF built.panic
              THEN tasks' = [tasks EXCEPT ![t].pc = "panic",
                                          ![t].paths = Append(@, path)]
              ELSE tasks' = [tasks EXCEPT ![t].pc = "loop",
                                          ![t].result = AppendSubTask(@, built.val),
                                          ![t].idx = @ + 1,
                                          ![t].paths = Append(@, path)]
         ELSE tasks' = [tasks EXCEPT ![t].pc = "panic"]
    /\ UNCHANGED <<totalRestCalls, dispatched, finalIssueChannel, remote, searchVars,
                   catVars, fnVars>>

\* Lines 183-190: the sub-tasks and the assignee are set and the issue is
\* sent on finalIssueChannel.
Agg_Emit(t) ==
    /\ ~Crashed
    /\ tasks[t].pc = "loop"
    /\ tasks[t].idx > Len(tasks[t].subTasks)
    /\ LET finished == FinishIssue(tasks[t].issue, tasks[t].parent, tasks[t].result) IN
         IF finished.panic
         THEN /\ tasks' = [tasks EXCEPT ![t].pc = "panic"]
              /\ UNCHANGED finalIssueChannel
         ELSE /\ tasks' = [tasks EXCEPT ![t].pc = "done", ![t].issue = finished.val]
              /\ finalIssueChannel' = Append(finalIssueChannel, finished.val)
    /\ UNCHANGED <<totalRestCalls, dispatched, remote, searchVars, catVars, fnVars>>

\* A step of some running call of GetSubTasksForIssue.
GetSubTasksForIssue_Begin == \E t \in DOMAIN tasks : Agg_Begin(t)
GetSubTasksForIssue_WriteParent == \E t \in DOMAIN tasks : Agg_WriteParent(t)
GetSubTasksForIssue_FetchParent == \E t \in DOMAIN tasks : Agg_FetchParent(t)
GetSubTasksForIssue_NextSubTask == \E t \in DOMAIN tasks : Agg_NextSubTask(t)
GetSubTasksForIssue_WriteSubTask == \E t \in DOMAIN tasks : Agg_WriteSubTask(t)
GetSubTasksForIssue_FetchSubTask == \E t \in DOMAIN tasks : Agg_FetchSubTask(t)
GetSubTasksForIssue_Emit == \E t \in DOMAIN tasks : Agg_Emit(t)

GetSubTasksForIssue ==
    \/ GetSubTasksForIssue_Begin
    \/ GetSubTasksForIssue_WriteParent
    \/ GetSubTasksForIssue_FetchParent
    \/ GetSubTasksForIssue_NextSubTask
    \/ GetSubTasksForIssue_WriteSubTask
    \/ GetSubTasksForIssue_FetchSubTask
    \/ GetSubTasksForIssue_Emit

\* The caller: it receives each issue of issueRetrievedChannel and starts a
\* goroutine running GetSubTasksForIssue on it, with the shared counter and
\* with the includeChangeLog it gives every call of the run.
Dispatch ==
    /\ ~Crashed
    /\ dispatched < Len(issueRetrievedChannel)
    /\ \E includeChangeLog \in BOOLEAN :
         /\ tasks # <<>> => includeChangeLog = tasks[1].includeChangeLog
         /\ tasks' = Append(tasks, NewTask(issueRetrievedChannel[dispatched + 1],
                                           includeChangeLog))
    /\ dispatched' = dispatched + 1
    /\ UNCHANGED <<totalRestCalls, finalIssueChannel, remote, searchVars, catVars, fnVars>>

-----------------------------------------------------------------------------
(* The issues of the remote service, and the two specifications of the
   aggregator: one call on a drawn parent issue (SpecAggregate), and the
   search runner with one concurrent call per issue found (SpecPipeline) *)

P1 == <<"p","1">>
P2 == <<"p","2">>
P3 == <<"p","3">>
S1 == <<"s","1">>
S2 == <<"s","2">>
S3 == <<"s","3">>
S4 == <<"s","4">>

\* An element of a "subtasks" or "issues" list: an object with the issue id.
Ref(issueId) == JObj(Map1(K_id, JStr(issueId)))

\* The sub-task issues: s1 has the four fields, s2 only a summary, s3
\* answers with a body that is not JSON, s4 has an empty array as assignee.
SubTaskWorld ==
    MapPut(MapPut(MapPut(Map1(
      S1, JObj(Map1(K_fields, JObj(MapPut(Map3(
              F_assignee, JObj(Map1(K_displayName, JStr(<<"A","l">>))),
              F_issuetype, JObj(Map1(K_name, JStr(<<"S","u","b","-","t","a","s","k">>))),
              F_summary, JStr(<<"F","i","x",","," ","i","t">>)),
              F_timetracking, JObj(Map1(K_originalEstimate, JStr(<<"2","h">>)))))))),
      S2, JObj(Map1(K_fields, JObj(Map1(F_summary, JStr(<<"D","o","c">>)))))),
      S3, NotJson),
      S4, JObj(Map1(K_fields, JObj(Map1(F_assignee, JArr(<<>>))))))

\* The "issuetype" a parent may have, absent included.
ParentTypes ==
    { Map1(F_issuetype, JObj(Map1(K_name, JStr(<<"B","u","g">>)))),
      Map1(F_issuetype, JObj(Map1(K_name, JStr(<<"f","u","n","c","t","i","o","n","a","l"," ","B","U","G">>)))),
      Map1(F_issuetype, JObj(Map1(K_name, JStr(<<"P","r","o","d","u","c","t","i","o","n"," ","I","s","s","u","e">>)))),
      Map1(F_issuetype, JObj(Map1(K_name, JStr(<<"S","t","o","r","y">>)))),
      Map1(F_issuetype, JStr(<<"T","a","s","k">>)),
      Map1(F_issuetype, JObj(Map1(K_name, JStr(<<"B","u","g"," ","f","i","x">>)))),
      EmptyMap }

\* The change histories a parent may have.
ParentLogs ==
    { <<>>,
      <<History(<<"B","o">>, <<ItemTo(<<"D","o","n","e">>)>>),
        History(<<"A","l">>, <<ItemTo(<<"D","o","n","e">>), ItemTo(InDevelopment)>>)>>,
      <<History(<<"B","o">>, <<ItemTo(InDevelopment)>>),
        History(<<"A","l">>, <<ItemTo(InDevelopment)>>)>> }

Parent(type, subtasks, histories) ==
    JObj(Map2(K_fields, JObj(MapPut(type, K_subtasks, JArr(subtasks))),
              K_changelog, ChangeLog(histories)))

WellShapedParents ==
    { Parent(type, subs, log) :
        type \in ParentTypes,
        subs \in SeqsUpTo({Ref(S1), Ref(S2), Ref(S3)}, MaxSubTasks),
        log \in ParentLogs }

\* Parent bodies that break the aggregator: not JSON, no "fields", no
\* "subtasks" list, a sub-task without id, a sub-task whose extraction
\* panics, an issuetype that is an empty array.
OddParents ==
    { NotJson,
      JObj(Map1(K_errorMessages, JArr(<<>>))),
      JObj(Map1(K_fields, JObj(EmptyMap))),
      Parent(EmptyMap, <<Ref(S1), JObj(EmptyMap)>>, <<>>),
      Parent(EmptyMap, <<Ref(S4)>>, <<>>),
      Parent(Map1(F_issuetype, JArr(<<>>)), <<>>, <<>>) }

\* The issues handed to a single call: with or without an id, with or
\* without an assignee name already set.
InputIssues ==
    { [JiraIssue(data, <<F_summary, F_status>>) EXCEPT !.AssigneeName = a] :
        data \in {Map1(K_id, JStr(P1)), EmptyMap}, a \in {<<>>, <<"Z","e","d">>} }

SearchIdle ==
    /\ srPc = "idle"
    /\ srBody = NotJson
    /\ processedFields = <<>>
    /\ issues = <<>>
    /\ srIdx = 1
    /\ issueRetrievedChannel = <<>>
    /\ dispatched = 0

InitAggregate ==
    /\ CatalogIdle
    /\ FnIdle
    /\ SearchIdle
    /\ \E body \in WellShapedParents \cup OddParents :
         remote = MapPut(SubTaskWorld, P1, body)
    /\ \E issue \in InputIssues, includeChangeLog \in BOOLEAN :
         tasks = <<NewTask(issue, includeChangeLog)>>
    /\ totalRestCalls = 0
    /\ finalIssueChannel = <<>>

NextAggregate == GetSubTasksForIssue

SpecAggregate == InitAggregate /\ [][NextAggregate]_vars

\* The parents of the concurrent runs: a bug with one sub-task, a story with
\* none, and an issue whose body is not JSON.
PipelineWorld ==
    MapPut(MapPut(MapPut(SubTaskWorld,
      P1, Parent(Map1(F_issuetype, JObj(Map1(K_name, JStr(<<"B","u","g">>)))),
                 <<Ref(S1)>>,
                 <<History(<<"A","l">>, <<ItemTo(InDevelopment)>>)>>)),
      P2, Parent(Map1(F_issuetype, JObj(Map1(K_name, JStr(<<"S","t","o","r","y">>)))),
                 <<>>, <<>>)),
      P3, NotJson)

\* The bodies /rest/api/2/search may answer with.
SearchBodies ==
    { NotJson, JObj(Map1(K_errorMessages, JArr(<<>>))) }
    \cup { JObj(Map1(K_issues, JArr(found))) :
             found \in SeqsUpTo({Ref(P1), Ref(P2), Ref(P3), JStr(P1)}, MaxIssues) }

InitPipeline ==
    /\ CatalogIdle
    /\ FnIdle
    /\ remote = PipelineWorld
    /\ srPc = "start"
    /\ srBody \in SearchBodies
    /\ processedFields = <<F_summary, F_status>>
    /\ issues = <<>>
    /\ srIdx = 1
    /\ issueRetrievedChannel = <<>>
    /\ dispatched = 0
    /\ tasks = <<>>
    /\ totalRestCalls = 0
    /\ finalIssueChannel = <<>>

NextPipeline ==
    \/ SearchIssues_Fetch
    \/ SearchIssues_Send
    \/ SearchIssues_Return
    \/ Dispatch
    \/ GetSubTasksForIssue

SpecPipeline == InitPipeline /\ [][NextPipeline]_vars

-----------------------------------------------------------------------------
(* Claims about GetSubTasksForIssue and SearchIssues *)

RECURSIVE FetchesIssued(_)
\* The fetches the first n tasks issued: for each, the parent and every
\* sub-task listed on it.
FetchesIssued(n) ==
    IF n = 0 THEN 0
    ELSE FetchesIssued(n - 1) + 1 + Len(tasks[n].subTasks)

\* SearchIssues has returned, every issue sent has its task, and every task
\* has sent its issue.
AllFinished ==
    /\ srPc = "done"
    /\ dispatched = Len(issueRetrievedChannel)
    /\ \A t \in DOMAIN tasks : tasks[t].pc = "done"

\* C5: with concurrent aggregator tasks sharing the counter no increment is
\* lost: once all tasks have finished, totalRestCalls has grown by the
\* number of fetches issued, one per issue and one per sub-task.
C5_NoIncrementLost ==
    AllFinished => totalRestCalls = FetchesIssued(Len(tasks))

\* The issue types that classify a parent as a bug, lower-cased.
BugTypes == {<<"b","u","g">>, <<"f","u","n","c","t","i","o","n","a","l"," ","b","u","g">>, <<"p","r","o","d","u","c","t","i","o","n"," ","i","s","s","u","e">>}

\* The extracted issuetype of the parent task t fetched.
ParentType(t) == GetValueFromField(tasks[t].parent, F_issuetype).val

\* C6: the emitted issue's AssigneeName is the result of the
\* developer-of-record scan when the parent's extracted issuetype is, without
\* regard to letter case, bug, functional bug or production issue; for every
\* other issuetype its AssigneeName, Data and Fields are those of the input
\* issue.
C6_AssigneeOverwrittenIffBug ==
    \A t \in DOMAIN tasks :
        tasks[t].pc = "done" =>
            /\ \E k \in DOMAIN finalIssueChannel : finalIssueChannel[k] = tasks[t].issue
            /\ IF ToLower(ParentType(t)) \in BugTypes
               THEN tasks[t].issue.AssigneeName = GetDeveloperNameFromLog(tasks[t].parent).val
               ELSE /\ tasks[t].issue.AssigneeName = tasks[t].input.AssigneeName
                    /\ tasks[t].issue.Data = tasks[t].input.Data
                    /\ tasks[t].issue.Fields = tasks[t].input.Fields

\* A bug whose type is not written in lower case had its assignee replaced,
\* and the sent issue keeps the input's Data and Fields.
C6_Witness ==
    \E t \in DOMAIN tasks :
        /\ tasks[t].pc = "done"
        /\ ParentType(t) = <<"f","u","n","c","t","i","o","n","a","l"," ","B","U","G">>
        /\ tasks[t].input.AssigneeName = <<"Z","e","d">>
        /\ tasks[t].issue.AssigneeName = <<"A","l">>
        /\ finalIssueChannel = <<tasks[t].issue>>

\* The "subtasks" list of the parent body the service holds for task t.
ListedSubTasks(t) ==
    remote[tasks[t].input.Data[K_id].v].v[K_fields].v[K_subtasks].v

\* C7: the SubTasks of the emitted issue are as many as the parent's
\* "subtasks", and the i-th is built from the fetch of the i-th listed id.
C7_SubTasksInListedOrder ==
    \A t \in DOMAIN tasks :
        tasks[t].pc = "done" =>
            /\ Len(tasks[t].issue.SubTasks) = Len(ListedSubTasks(t))
            /\ \A i \in 1..Len(ListedSubTasks(t)) :
                 tasks[t].issue.SubTasks[i] =
                     BuildSubTask(GetIssue(ListedSubTasks(t)[i].v[K_id].v, FALSE)).val
            /\ \E k \in DOMAIN finalIssueChannel : finalIssueChannel[k] = tasks[t].issue

\* An issue was sent with two different sub-tasks, s1 first.
C7_Witness ==
    \E t \in DOMAIN tasks :
        /\ tasks[t].pc = "done"
        /\ ListedSubTasks(t) = <<Ref(S1), Ref(S2)>>
        /\ Len(tasks[t].issue.SubTasks) = 2
        /\ tasks[t].issue.SubTasks[1].Name = <<"F","i","x"," ","i","t">>
        /\ tasks[t].issue.SubTasks[2].Name = <<"D","o","c">>

\* The body the service answers with for the i-th sub-task of task t.
SubTaskBody(t, i) == Respond(remote, tasks[t].subTasks[i].v[K_id].v, FALSE)

\* C8: a fetch of the aggregator whose body is not a JSON object is a hard
\* failure: no issue record built from such a response is sent on
\* finalIssueChannel.
C8_MalformedFetchFails ==
    \A t \in DOMAIN tasks :
        tasks[t].pc = "done" =>
            /\ Respond(remote, tasks[t].input.Data[K_id].v, tasks[t].includeChangeLog).t = "obj"
            /\ \A i \in 1..Len(tasks[t].subTasks) : SubTaskBody(t, i).t = "obj"

\* The "issues" list of the search response.
FoundIssues == srBody.v[K_issues].v

\* C10: SearchIssues sends the issues of the response in their order, each
\* as Data with the requested field list as Fields, none dropped, duplicated
\* or reordered, and has sent all of them when it returns.
C10_SearchSendsInOrder ==
    /\ \A k \in 1..Len(issueRetrievedChannel) :
         /\ k <= Len(FoundIssues)
         /\ issueRetrievedChannel[k].Data = FoundIssues[k].v
         /\ issueRetrievedChannel[k].Fields = processedFields
    /\ srPc = "done" => Len(issueRetrievedChannel) = Len(FoundIssues)

\* SearchIssues has returned after sending two different issues.
C10_Witness ==
    /\ srPc = "done"
    /\ Len(issueRetrievedChannel) = 2
    /\ issueRetrievedChannel[1].Data = Map1(K_id, JStr(P2))
    /\ issueRetrievedChannel[2].Data = Map1(K_id, JStr(P1))
    /\ issueRetrievedChannel[1].Fields = <<F_summary, F_status>>


-----------------------------------------------------------------------------
(* Claims about the paths GetSubTasksForIssue requests *)

\* The path of an issue with its change history, and the bare path.
ExpandedPath(issueId) == <<"/","r","e","s","t","/","a","p","i","/","2","/","i","s","s","u","e","/">> \o issueId \o <<"?","e","x","p","a","n","d","=","c","h","a","n","g","e","l","o","g">>
BarePath(issueId) == <<"/","r","e","s","t","/","a","p","i","/","2","/","i","s","s","u","e","/">> \o issueId

\* C11: every call of GetSubTasksForIssue requests the parent on the path
\* with ?expand=changelog and each sub-task on the bare path, so that the
\* parent a call holds after its fetch carries the change history whenever the
\* service has one for it.
C11_ParentFetchedWithChangeLog ==
    \A t \in DOMAIN tasks :
        Len(tasks[t].paths) >= 1 =>
            /\ tasks[t].paths[1] = ExpandedPath(tasks[t].input.Data[K_id].v)
            /\ \A i \in 2..Len(tasks[t].paths) :
                 tasks[t].paths[i] = BarePath(tasks[t].subTasks[i - 1].v[K_id].v)
            /\ LET body == remote[tasks[t].input.Data[K_id].v] IN
                 (body.t = "obj" /\ Has(body.v, K_changelog))
                 => Has(tasks[t].parent, K_changelog)

-----------------------------------------------------------------------------
(* Claims about the "created" timestamp and the shape dispatch of the value
   extractor, under SpecFunctions *)

\* The issue has a "fields" object that holds the field.
FieldPresent(issue, field) ==
    /\ IsA(issue, K_fields, "obj")
    /\ Has(issue[K_fields].v, field)

FieldValue(issue, field) == issue[K_fields].v[field]

\* The value is a string that time.Parse accepts.
ParsesAsTimestamp(val) == val.t = "str" /\ TimeParse(val.v).ok

\* C12: for a present field named "created" in any letter case, a value that
\* does not parse as the timestamp is fatal, so GetValueFromField returns no
\* string for it; a value that parses is returned as DD/Mon/YY, and
\* "2023-03-05T10:15:30.000+0000" as "05/Mar/23".
C12_BadTimestampIsFatal ==
    (/\ fnName = "GetValueFromField"
     /\ ToLower(fnField) = F_created
     /\ FieldPresent(fnIssue, fnField)
     /\ fnPc # "ready")
    => IF ParsesAsTimestamp(FieldValue(fnIssue, fnField))
       THEN /\ fnPc = "returned"
            /\ fnOut = FormatDate(TimeParse(FieldValue(fnIssue, fnField).v))
            /\ FieldValue(fnIssue, fnField).v = <<"2","0","2","3","-","0","3","-","0","5","T","1","0",":","1","5",":","3","0",".","0","0","0","+","0","0","0","0">>
               => fnOut = <<"0","5","/","M","a","r","/","2","3">>
       ELSE fnPc = "panic"

-----------------------------------------------------------------------------
(* Claims about the fold of GetCustomFields over the field definitions, under
   SpecCatalog *)

RECURSIVE StateAfter(_)
\* The result and staticFields maps once the loop has processed the first k
\* field definitions.
StateAfter(k) ==
    IF k = 0 THEN CFState(EmptyMap, EmptyMap, FALSE)
    ELSE ProcessField(StateAfter(k - 1).result, StateAfter(k - 1).staticFields, fields[k])

\* The loop has processed field definition i.
Processed(i) == cfPc \in {"loop", "done"} /\ i < cfIdx

\* Field definition i is a standard field whose lower-cased name was no key
\* of the result when the loop came to it.
ClaimsName(i) ==
    /\ IsStandardAt(i)
    /\ ~Has(StateAfter(i - 1).result, LowerNameAt(i))

\* C13: once the loop has processed a standard field whose lower-cased name
\* was no key of the result at that moment, the name is no key of the result
\* after any later step, whatever definitions follow, and no key of the
\* catalog sent.
C13_ClaimedNameStaysOut ==
    \A i \in 1..Len(fields) :
        (Processed(i) /\ ClaimsName(i)) =>
            /\ ~Has(result, LowerNameAt(i))
            /\ CatalogSent => ~Has(Catalog, LowerNameAt(i))

\* The catalog was sent after a standard field claimed a name and two custom
\* fields with that name, written in different letter cases, followed it.
C13_Witness ==
    /\ CatalogSent
    /\ Len(fields) = 3
    /\ ClaimsName(1)
    /\ IsCustomAt(2) /\ LowerNameAt(2) = LowerNameAt(1)
    /\ IsCustomAt(3) /\ LowerNameAt(3) = LowerNameAt(1)
    /\ fields[2][K_name].v # fields[3][K_name].v
    /\ ~Has(Catalog, LowerNameAt(1))

-----------------------------------------------------------------------------
(* Claims about the shape dispatch and the comma stripping of the value
   extractor, under SpecFunctions *)

\* The nested key an object value is read at, by lower-cased field name.
NestedKeyFor(lowerField) ==
    CASE lowerField \in {F_assignee, F_reporter} -> K_displayName
      [] lowerField \in {F_issuetype, F_status, F_priority} -> K_name
      [] lowerField = F_timetracking -> K_originalEstimate
      [] OTHER -> K_value

\* The value has one of the shapes the extractor expects for the field: an
\* array whose first element is an object with a string "value", an object
\* whose nested key, when present, holds a string, a scalar, or null.
WellShapedValue(val, field) ==
    CASE val.t = "arr" ->
            /\ Len(val.v) >= 1
            /\ val.v[1].t = "obj"
            /\ IsA(val.v[1].v, K_value, "str")
      [] val.t = "obj" ->
            Has(val.v, NestedKeyFor(ToLower(field)))
            => val.v[NestedKeyFor(ToLower(field))].t = "str"
      [] OTHER -> val.t \in {"str", "num", "bool", "null"}

\* What the shape dispatch is to yield for a well-shaped value.
DispatchedValue(val, field) ==
    CASE val.t = "arr" -> val.v[1].v[K_value].v
      [] val.t = "obj" ->
            IF Has(val.v, NestedKeyFor(ToLower(field)))
            THEN val.v[NestedKeyFor(ToLower(field))].v
            ELSE <<>>
      [] val.t = "str" -> val.v
      [] val.t = "bool" -> IF val.v THEN <<"t","r","u","e">> ELSE <<"f","a","l","s","e">>
      [] val.t = "num" ->
            IF val.v = 0 THEN <<"0">>
            ELSE IF val.v = 1234 THEN <<"1","2","3","4">>
            ELSE IF val.v = 999999 THEN <<"9","9","9","9","9","9">>
            ELSE Itoa(val.v)
      [] OTHER -> <<>>

\* GetValueFromField was called on a present field other than "created"
\* whose value is well-shaped, and the call is over.
DispatchCase ==
    /\ fnName = "GetValueFromField"
    /\ fnPc # "ready"
    /\ FieldPresent(fnIssue, fnField)
    /\ ToLower(fnField) # F_created
    /\ WellShapedValue(FieldValue(fnIssue, fnField), fnField)

\* C14: for a present field other than "created" with a well-shaped value,
\* GetValue yields the "value" of the first element of an array, the nested
\* key chosen by the field name without regard to letter case of an object
\* (the empty string when the key is missing), the stringification of a
\* scalar and the empty string for null; GetValueFromField returns it with
\* the commas removed.
C14_ShapeDispatch ==
    DispatchCase =>
        /\ GetValue(FieldValue(fnIssue, fnField), fnField)
             = Returns(DispatchedValue(FieldValue(fnIssue, fnField), fnField))
        /\ fnPc = "returned"
        /\ fnOut = StripCommas(DispatchedValue(FieldValue(fnIssue, fnField), fnField))

\* The call for "IssueType" returned the "name" of an object that also holds
\* "displayName", "value" and "originalEstimate".
C14_Witness ==
    /\ DispatchCase
    /\ fnField = <<"I","s","s","u","e","T","y","p","e">>
    /\ FieldValue(fnIssue, fnField).t = "obj"
    /\ DOMAIN FieldValue(fnIssue, fnField).v
         = {K_name, K_displayName, K_value, K_originalEstimate}
    /\ fnPc = "returned"
    /\ fnOut = <<"n">>

RECURSIVE WithoutCommas(_)
\* s with every comma left out and the other characters in their order.
WithoutCommas(s) ==
    IF s = <<>> THEN <<>>
    ELSE IF Head(s) = "," THEN WithoutCommas(Tail(s))
    ELSE <<Head(s)>> \o WithoutCommas(Tail(s))

\* C15: for a field name other than "created", the string GetValueFromField
\* returns holds no comma, and for a present field it is the value GetValue
\* extracted with every comma removed and the other characters kept in
\* order; "1,234" gives "1234".
C15_CommasStripped ==
    (/\ fnName = "GetValueFromField"
     /\ fnPc = "returned"
     /\ ToLower(fnField) # F_created)
    => /\ \A i \in 1..Len(fnOut) : fnOut[i] # ","
       /\ FieldPresent(fnIssue, fnField) =>
            /\ fnOut = WithoutCommas(GetValue(FieldValue(fnIssue, fnField), fnField).val)
            /\ FieldValue(fnIssue, fnField) = JStr(<<"1",",","2","3","4">>) => fnOut = <<"1","2","3","4">>

\* The call returned "ab" for the string ",a,,b,".
C15_Witness ==
    /\ fnName = "GetValueFromField"
    /\ fnPc = "returned"
    /\ fnField = F_summary
    /\ FieldPresent(fnIssue, fnField)
    /\ FieldValue(fnIssue, fnField) = JStr(<<",","a",",",",","b",",">>)
    /\ fnOut = <<"a","b">>

-----------------------------------------------------------------------------
(* The pipeline under the scheduler: a goroutine that can take a step
   eventually takes one, and the consumer of finalIssueChannel keeps
   receiving, so no send waits forever *)

SpecPipelineFair == SpecPipeline /\ WF_vars(NextPipeline)

\* The body the service holds for the id is a JSON object.
AnswersObject(issueId) == Has(remote, issueId) /\ remote[issueId].t = "obj"

\* The parent body lists its sub-tasks as objects with an id, and the fetch
\* of each of them answers with a JSON object.
ParentFetchesSucceed(issueId) ==
    /\ AnswersObject(issueId)
    /\ IsA(remote[issueId].v, K_fields, "obj")
    /\ IsA(remote[issueId].v[K_fields].v, K_subtasks, "arr")
    /\ \A i \in 1..Len(remote[issueId].v[K_fields].v[K_subtasks].v) :
         LET subTask == remote[issueId].v[K_fields].v[K_subtasks].v[i] IN
           /\ subTask.t = "obj"
           /\ IsA(subTask.v, K_id, "str")
           /\ AnswersObject(subTask.v[K_id].v)

\* The search answered with a list of issues, and every fetch the run makes
\* for them succeeds.
AllFetchesSucceed ==
    /\ srBody.t = "obj"
    /\ IsA(srBody.v, K_issues, "arr")
    /\ \A k \in 1..Len(FoundIssues) :
         /\ FoundIssues[k].t = "obj"
         /\ IsA(FoundIssues[k].v, K_id, "str")
         /\ ParentFetchesSucceed(FoundIssues[k].v[K_id].v)

\* How many records of the channel carry the Data d.
CountOf(channel, d) == Cardinality({k \in DOMAIN channel : channel[k].Data = d})

\* Every issue the search runner produced has been emitted exactly once.
AllEmittedOnce ==
    /\ srPc = "done"
    /\ Len(issueRetrievedChannel) = Len(FoundIssues)
    /\ Len(finalIssueChannel) = Len(issueRetrievedChannel)
    /\ \A k \in DOMAIN issueRetrievedChannel :
         CountOf(finalIssueChannel, issueRetrievedChannel[k].Data)
           = CountOf(issueRetrievedChannel, issueRetrievedChannel[k].Data)

\* Each call has sent at most one record, and only after its parent fetch and
\* all its sub-task fetches.
SentAfterFetches ==
    /\ Len(finalIssueChannel)
         = Cardinality({t \in DOMAIN tasks : tasks[t].pc = "done"})
    /\ \A t \in DOMAIN tasks :
         tasks[t].pc = "done" =>
            /\ Len(tasks[t].paths) = 1 + Len(ListedSubTasks(t))
            /\ CountOf(finalIssueChannel, tasks[t].input.Data) >= 1

\* C16: a call of GetSubTasksForIssue sends one record on finalIssueChannel,
\* after its parent fetch and every sub-task fetch; and when every fetch of
\* the run succeeds, every issue the search runner produced is eventually
\* emitted exactly once.
C16_EveryIssueEmittedOnce ==
    /\ []SentAfterFetches
    /\ AllFetchesSucceed ~> AllEmittedOnce

-----------------------------------------------------------------------------
(* Claims about the order of finalIssueChannel, under SpecPipeline *)

\* C17: the order of finalIssueChannel is not that of the search: the
\* records it receives are those of the issues the search runner produced,
\* none more often than produced and all of them once every call has
\* finished, with nothing said of their positions; the run in which they
\* arrive in another order than produced is reachable (C17_Witness).
C17_FinalIsReorderingOfSearch ==
    /\ \A k \in DOMAIN finalIssueChannel :
         /\ CountOf(finalIssueChannel, finalIssueChannel[k].Data)
              <= CountOf(issueRetrievedChannel, finalIssueChannel[k].Data)
         /\ finalIssueChannel[k].Fields = processedFields
    /\ AllFinished =>
         \A k \in DOMAIN issueRetrievedChannel :
             CountOf(finalIssueChannel, issueRetrievedChannel[k].Data)
               = CountOf(issueRetrievedChannel, issueRetrievedChannel[k].Data)

\* The search produced p1 before p2 and finalIssueChannel received the
\* record of p2 before that of p1.
C17_Witness ==
    /\ AllFinished
    /\ Len(issueRetrievedChannel) = 2
    /\ issueRetrievedChannel[1].Data = Map1(K_id, JStr(P1))
    /\ issueRetrievedChannel[2].Data = Map1(K_id, JStr(P2))
    /\ Len(finalIssueChannel) = 2
    /\ finalIssueChannel[1].Data = Map1(K_id, JStr(P2))
    /\ finalIssueChannel[2].Data = Map1(K_id, JStr(P1))
    /\ Len(finalIssueChannel[2].SubTasks) = 1

-----------------------------------------------------------------------------
(* The invariant of the fold of GetCustomFields, under SpecCatalog *)

\* The field definitions the loop has processed so far.
ProcessedPrefix == 1..(cfIdx - 1)

\* C18: after every processed prefix of the field definitions, every key of
\* the result is a lower-cased name and maps to the lower-cased id of a
\* custom field of the prefix with that lower-cased name, never to the id of
\* a standard field of that name, and no name is a key of both the result
\* and staticFields; the catalog sent is that result.
C18_FoldInvariant ==
    /\ \A n \in DOMAIN result :
         /\ n = ToLower(n)
         /\ \E i \in ProcessedPrefix :
              /\ IsCustomAt(i)
              /\ LowerNameAt(i) = n
              /\ result[n] = LowerIdAt(i)
         /\ \A i \in ProcessedPrefix :
              (IsStandardAt(i) /\ LowerNameAt(i) = n) => result[n] # LowerIdAt(i)
    /\ DOMAIN result \cap DOMAIN staticFields = {}
    /\ CatalogSent => Catalog = result

\* The catalog was sent with an entry made from a custom field whose name and
\* id hold upper-case letters, while staticFields holds another name.
C18_Witness ==
    /\ CatalogSent
    /\ cfIdx = 4
    /\ IsCustomAt(1) /\ fields[1][K_name].v = <<"S","v">> /\ fields[1][K_id].v = <<"C","1">>
    /\ Has(result, <<"s","v">>) /\ result[<<"s","v">>] = <<"c","1">>
    /\ Has(staticFields, <<"p">>)

=============================================================================
